---------------------------- MODULE Spec2Model ----------------------------
(***************************************************************************)
(* Model of scripts/issue_license.py, the Finch commercial license key     *)
(* issuer: argument parsing, the two key sources, issue_key (claim,        *)
(* compact JSON, signature, unpadded base64url, FINCH- token) and the      *)
(* reporting on standard output and standard error.                        *)
(*                                                                         *)
(* A Python str is a sequence of code points, bytes a sequence of 0..255.  *)
(* PEM material is a sequence of symbolic blocks; a calendar date is its   *)
(* proleptic Gregorian ordinal (date.toordinal()).                         *)
(***************************************************************************)
EXTENDS Integers, Sequences, FiniteSets, TLC

(***************************************************************************)
(* Bounds of the model.                                                    *)
(***************************************************************************)
\* how many times the calendar date may change while the model runs
MaxTicks == 1

VARIABLES
    pc,       \* where the process is: idle, parse, load, issue, report, exit
    argv,     \* the command line of the current run
    args,     \* the namespace parse_args() returned
    pem,      \* main's pem: the key material a key source returned
    source,   \* main's source: where the key came from
    key,      \* main's key: the token issue_key returned
    stdout,   \* the lines written to standard output by the current run
    stderr,   \* the lines written to standard error by the current run
    status,   \* the exit status, Running while the process runs
    clock,    \* the calendar date date.today() returns
    calls,    \* history: the key sources invoked by the current run, in order
    op,       \* history: what the op subprocess did in the current run
    signing,  \* history: the sign() call of the current run
    prev      \* history: the last successful issuance of an earlier run

vars == << pc, argv, args, pem, source, key, stdout, stderr, status, clock,
           calls, op, signing, prev >>

(***************************************************************************)
(* Generic sequence helpers.                                               *)
(***************************************************************************)
RECURSIVE ConcatRange(_, _, _)
\* ss[lo] \o ... \o ss[hi], halving the range
ConcatRange(ss, lo, hi) ==
    IF lo > hi THEN <<>>
    ELSE IF lo = hi THEN ss[lo]
    ELSE LET mid == (lo + hi) \div 2
         IN  ConcatRange(ss, lo, mid) \o ConcatRange(ss, mid + 1, hi)

Concat(ss) == ConcatRange(ss, 1, Len(ss))

RECURSIVE SumRange(_, _, _)
\* sum of f[lo..hi], halving the range
SumRange(f, lo, hi) ==
    IF lo > hi THEN 0
    ELSE IF lo = hi THEN f[lo]
    ELSE LET mid == (lo + hi) \div 2
         IN  SumRange(f, lo, mid) + SumRange(f, mid + 1, hi)

(***************************************************************************)
(* datetime.date: ordinals, year/month/day, isoformat, date + timedelta.   *)
(***************************************************************************)
IsLeap(y) == y % 4 = 0 /\ (y % 100 # 0 \/ y % 400 = 0)

DaysBeforeMonthTable == <<0, 31, 59, 90, 120, 151, 181, 212, 243, 273, 304, 334>>

DaysBeforeMonth(y, m) ==
    DaysBeforeMonthTable[m] + (IF m > 2 /\ IsLeap(y) THEN 1 ELSE 0)

DaysBeforeYear(y) ==
    LET y1 == y - 1 IN y1 * 365 + (y1 \div 4) - (y1 \div 100) + (y1 \div 400)

\* date(y, m, d).toordinal()
Ymd2Ord(y, m, d) == DaysBeforeYear(y) + DaysBeforeMonth(y, m) + d

\* date.max.toordinal(), the last day of MAXYEAR
MaxOrdinal == Ymd2Ord(9999, 12, 31)

\* date.fromordinal(n) as <<year, month, day>>
Ord2Ymd(ord) ==
    LET n0   == ord - 1
        n400 == n0 \div 146097
        r400 == n0 % 146097
        n100 == r400 \div 36524
        r100 == r400 % 36524
        n4   == r100 \div 1461
        r4   == r100 % 1461
        n1   == r4 \div 365
        n    == r4 % 365
        year == n400 * 400 + 1 + n100 * 100 + n4 * 4 + n1
    IN  IF n1 = 4 \/ n100 = 4 THEN <<year - 1, 12, 31>>
        ELSE
          LET leap  == n1 = 3 /\ (n4 # 24 \/ n100 = 3)
              lp(m) == IF m > 2 /\ leap THEN 1 ELSE 0
              m0    == (n + 50) \div 32
              p0    == DaysBeforeMonthTable[m0] + lp(m0)
              month == IF p0 > n THEN m0 - 1 ELSE m0
              prec  == DaysBeforeMonthTable[month] + lp(month)
          IN  <<year, month, n - prec + 1>>

Digit(d) == 48 + d

\* "%04d-%02d-%02d"
IsoFormat(ord) ==
    LET t == Ord2Ymd(ord)
        y == t[1]
        m == t[2]
        d == t[3]
    IN  << Digit(y \div 1000), Digit((y \div 100) % 10), Digit((y \div 10) % 10),
           Digit(y % 10), 45,
           Digit(m \div 10), Digit(m % 10), 45,
           Digit(d \div 10), Digit(d % 10) >>

\* timedelta(days = 365 * years).days
ExpiryDaysLeap(years) == 366 * years
ExpiryDays(years) == 365 * years

\* timedelta(days = n) raises OverflowError beyond 999999999 days, and
\* date + timedelta raises it when the result leaves date.min .. date.max
DateAddOk(ord, days) ==
    /\ days >= -999999999 /\ days <= 999999999
    /\ ord + days >= 1 /\ ord + days <= MaxOrdinal

DateAdd(ord, days) == ord + days

(***************************************************************************)
(* json.dumps(mapping, separators = (",", ":")) with ensure_ascii.         *)
(***************************************************************************)
HexDigit(d) == IF d < 10 THEN 48 + d ELSE 87 + d

\* "\\u{0:04x}"
UEscape(c) ==
    << 92, 117, HexDigit(c \div 4096), HexDigit((c \div 256) % 16),
       HexDigit((c \div 16) % 16), HexDigit(c % 16) >>

EscapeCharRaw(c) == <<c>>
\* one code point inside a JSON string literal
EscapeChar(c) ==
    IF c = 34 THEN <<92, 34>>
    ELSE IF c = 92 THEN <<92, 92>>
    ELSE IF c = 10 THEN <<92, 110>>
    ELSE IF c = 13 THEN <<92, 114>>
    ELSE IF c = 9 THEN <<92, 116>>
    ELSE IF c = 12 THEN <<92, 102>>
    ELSE IF c = 8 THEN <<92, 98>>
    ELSE IF c >= 32 /\ c <= 126 THEN <<c>>
    ELSE IF c < 65536 THEN UEscape(c)
    ELSE LET v == c - 65536
         IN  UEscape(55296 + (v \div 1024)) \o UEscape(56320 + (v % 1024))

JsonString(s) ==
    <<34>> \o Concat([i \in 1..Len(s) |-> EscapeChar(s[i])]) \o <<34>>

\* pairs: the mapping's items in insertion order, each <<key, value>>
JsonDumps(pairs) ==
    LET item(i) == (IF i > 1 THEN <<44>> ELSE <<>>)
                   \o JsonString(pairs[i][1]) \o <<58>> \o JsonString(pairs[i][2])
    IN  <<123>> \o Concat([i \in 1..Len(pairs) |-> item(i)]) \o <<125>>

(***************************************************************************)
(* base64.urlsafe_b64encode(data).rstrip(b"=")                             *)
(***************************************************************************)
\* the URL-safe alphabet: A-Z a-z 0-9 - _
B64Char(v) ==
    IF v < 26 THEN 65 + v
    ELSE IF v < 52 THEN 97 + (v - 26)
    ELSE IF v < 62 THEN 48 + (v - 52)
    ELSE IF v = 62 THEN 45 ELSE 95

UrlsafeB64Encode(data) ==
    LET n     == Len(data)
        at(i) == IF i <= n THEN data[i] ELSE 0
        ch(k) ==
            LET g  == (k - 1) \div 4
                j  == (k - 1) % 4
                b0 == at(3 * g + 1)
                b1 == at(3 * g + 2)
                b2 == at(3 * g + 3)
            IN  IF j = 0 THEN B64Char(b0 \div 4)
                ELSE IF j = 1 THEN B64Char((b0 % 4) * 16 + (b1 \div 16))
                ELSE IF j = 2
                     THEN (IF 3 * g + 2 > n THEN 61
                           ELSE B64Char((b1 % 16) * 4 + (b2 \div 64)))
                ELSE (IF 3 * g + 3 > n THEN 61 ELSE B64Char(b2 % 64))
    IN  [k \in 1..(4 * ((n + 2) \div 3)) |-> ch(k)]

RECURSIVE RStrip(_, _)
RStrip(s, c) ==
    IF s # <<>> /\ s[Len(s)] = c THEN RStrip(SubSeq(s, 1, Len(s) - 1), c) ELSE s

b64urlPadded(data) == UrlsafeB64Encode(data)
b64url(data) == RStrip(UrlsafeB64Encode(data), 61)


\* str.encode(): UTF-8
Utf8Char(c) ==
    IF c < 128 THEN <<c>>
    ELSE IF c < 2048 THEN <<192 + (c \div 64), 128 + (c % 64)>>
    ELSE IF c < 65536
         THEN <<224 + (c \div 4096), 128 + ((c \div 64) % 64), 128 + (c % 64)>>
    ELSE <<240 + (c \div 262144), 128 + ((c \div 4096) % 64),
           128 + ((c \div 64) % 64), 128 + (c % 64)>>

Utf8Encode(s) == Concat([i \in 1..Len(s) |-> Utf8Char(s[i])])

(***************************************************************************)
(* Key material.  PEM text is a sequence of blocks: "ws" is whitespace,    *)
(* "ED1" and "ED2" are the PEM encodings of two Ed25519 private keys,      *)
(* "RSA" that of an RSA private key, "junk" anything that is no PEM.       *)
(***************************************************************************)
RECURSIVE LStripWs(_)
LStripWs(s) == IF s # <<>> /\ Head(s) = "ws" THEN LStripWs(Tail(s)) ELSE s

\* str.strip()
StripWs(s) == RStrip(LStripWs(s), "ws")

\* load_pem_private_key(data, password=None): the key, or ValueError
LoadPemPrivateKey(data) ==
    LET core == StripWs(data)
    IN  IF Len(core) = 1 /\ core[1] \in {"ED1", "ED2", "RSA"}
        THEN [ok |-> TRUE, key |-> core[1]]
        ELSE [ok |-> FALSE, key |-> ""]

IsEd25519(k) == k \in {"ED1", "ED2"}

KeyByte(k) == IF k = "ED1" THEN 1 ELSE 2

\* a randomised signature: the nonce comes from what the process holds in
\* memory, here the size of the raw key material
SignWithNonce(k, data) ==
    << KeyByte(k),
       SumRange(data, 1, Len(data)) % 256,
       SumRange([i \in 1..Len(data) |-> i * data[i]], 1, Len(data)) % 256,
       (Len(data) + Len(pem.bytes)) % 256 >>

\* Ed25519PrivateKey.sign(data): deterministic, of fixed length; the
\* signature is idealised as the key's tag followed by a keyed digest
Sign(k, data) ==
    << KeyByte(k),
       SumRange(data, 1, Len(data)) % 256,
       SumRange([i \in 1..Len(data) |-> i * data[i]], 1, Len(data)) % 256,
       Len(data) % 256 >>

(***************************************************************************)
(* Output.  A line is a literal text, an interpolated symbolic value (a    *)
(* path, a diagnostic) and interpolated characters; tag is how it starts.  *)
(***************************************************************************)
Line(tag, pre, arg, chars) == [tag |-> tag, pre |-> pre, arg |-> arg, chars |-> chars]

\* print(f"error: {e}", file=sys.stderr): msg is str(e), line by line
ErrorLines(msg) ==
    [i \in 1..Len(msg) |-> IF i = 1 THEN [msg[i] EXCEPT !.tag = "error: "] ELSE msg[i]]

PrintErrorToStdout(msg) == [out |-> ErrorLines(msg), err |-> <<>>]
PrintError(msg) == [out |-> <<>>, err |-> ErrorLines(msg)]

\* an exception nothing catches: the interpreter prints the traceback
Traceback(exc) ==
    << Line("Traceback", "Traceback (most recent call last):", "", <<>>),
       Line("", "", exc, <<>>) >>

(***************************************************************************)
(* The environment: the file system and what the op subprocess may do.     *)
(***************************************************************************)
\* os.path.expanduser(path)
ExpandUser(path) == IF path = "~/ed1.pem" THEN "/home/finch/ed1.pem" ELSE path

File(data) == [kind |-> "file", data |-> data]

Stat(path) ==
    IF path = "/home/finch/ed1.pem" THEN File(<<"ED1", "ws">>)
    ELSE IF path = "ed2.pem" THEN File(<<"ws", "ED2", "ws">>)
    ELSE IF path = "rsa.pem" THEN File(<<"RSA", "ws">>)
    ELSE IF path = "junk.pem" THEN File(<<"junk">>)
    ELSE IF path = "empty.pem" THEN File(<<>>)
    ELSE IF path = "keys" THEN [kind |-> "dir", data |-> <<>>]
    ELSE IF path = "locked.pem" THEN [kind |-> "locked", data |-> <<>>]
    ELSE [kind |-> "absent", data |-> <<>>]

OpRun(kind, out, err) == [kind |-> kind, out |-> out, err |-> err]

NoOp == OpRun("none", <<>>, <<>>)

\* subprocess.run(["op", ...], capture_output=True, text=True, check=True)
OpOutcomes ==
    { OpRun("notfound", <<>>, <<>>),
      OpRun("noexec", <<>>, <<>>),
      OpRun("failed", <<>>, <<"[ERROR] not signed in", "ws">>),
      OpRun("failed", <<>>, <<>>),
      OpRun("ok", <<>>, <<>>),
      OpRun("ok", <<"ws", "ws">>, <<>>),
      OpRun("ok", <<"ED1", "ws">>, <<>>),
      OpRun("ok", <<"junk", "ws">>, <<>>) }

(***************************************************************************)
(* The key sources.  A result is the bytes returned or the exception.      *)
(***************************************************************************)
Return(val) == [ok |-> TRUE, val |-> val, exc |-> "", msg |-> <<>>]

Raise(exc, msg) == [ok |-> FALSE, val |-> <<>>, exc |-> exc, msg |-> msg]

Msg(pre, arg) == Line("", pre, arg, <<>>)

load_1password_unchecked(o) ==
    IF o.kind = "notfound"
    THEN Raise("RuntimeError",
               << Msg("1Password CLI (op) not found. Install with: brew install 1password-cli", ""),
                  Msg("Or use --key ~/.finch/license_private.pem", "") >>)
    ELSE IF o.kind = "failed"
    THEN Raise("RuntimeError",
               << Msg("op failed (are you signed in? run: op signin):", "") >>
               \o [i \in 1..Len(StripWs(o.err)) |-> Msg("", StripWs(o.err)[i])])
    ELSE IF o.kind = "noexec"
    THEN Raise("PermissionError", <<>>)
    ELSE Return(StripWs(o.out))

\* load_private_key_from_1password(), o being what the subprocess did
load_private_key_from_1password(o) ==
    IF o.kind = "notfound"
    THEN Raise("RuntimeError",
               << Msg("1Password CLI (op) not found. Install with: brew install 1password-cli", ""),
                  Msg("Or use --key ~/.finch/license_private.pem", "") >>)
    ELSE IF o.kind = "failed"
    THEN Raise("RuntimeError",
               << Msg("op failed (are you signed in? run: op signin):", "") >>
               \o [i \in 1..Len(StripWs(o.err)) |-> Msg("", StripWs(o.err)[i])])
    ELSE IF o.kind = "noexec"
    THEN Raise("PermissionError", <<>>)
    ELSE IF StripWs(o.out) = <<>>
    THEN Raise("RuntimeError", << Msg("op returned empty output", "") >>)
    ELSE Return(StripWs(o.out))

\* load_private_key_from_file(path)
load_private_key_from_file(path) ==
    LET p  == ExpandUser(path)
        st == Stat(p)
    IN  IF st.kind = "absent"
        THEN Raise("RuntimeError", << Msg("Key file not found: ", p) >>)
        ELSE IF st.kind = "dir" THEN Raise("IsADirectoryError", <<>>)
        ELSE IF st.kind = "locked" THEN Raise("PermissionError", <<>>)
        ELSE Return(st.data)

(***************************************************************************)
(* issue_key                                                               *)
(***************************************************************************)
\* "FINCH-"
Prefix == <<70, 73, 78, 67, 72, 45>>

KeySub == <<115, 117, 98>>
KeyName == <<110, 97, 109, 101>>
KeyTier == <<116, 105, 101, 114>>
KeyIss == <<105, 115, 115>>
KeyExp == <<101, 120, 112>>
\* "commercial"
Commercial == <<99, 111, 109, 109, 101, 114, 99, 105, 97, 108>>

\* the mapping handed to json.dumps, in insertion order
Claim(email, name, today, expiry) ==
    << <<KeySub, email>>, <<KeyName, name>>, <<KeyTier, Commercial>>,
       <<KeyIss, IsoFormat(today)>>, <<KeyExp, IsoFormat(expiry)>> >>

\* payload = json.dumps({...}, separators=(",", ":")).encode()
Payload(email, name, years, today) ==
    Utf8Encode(JsonDumps(Claim(email, name, today,
                               DateAdd(today, ExpiryDays(years)))))

\* f"FINCH-{b64url(payload)}.{b64url(signature)}"
Token(payload, signature) ==
    Prefix \o b64url(payload) \o <<46>> \o b64url(signature)

Issued(tok, k, data) ==
    [ok |-> TRUE, tok |-> tok, exc |-> "", key |-> k, data |-> data]

Failed(exc) == [ok |-> FALSE, tok |-> <<>>, exc |-> exc, key |-> "", data |-> <<>>]

\* issue_key(email, name, years, private_key_pem), today being what
\* date.today() returns and installed whether cryptography can be imported
issue_key(email, name, years, private_key_pem, today, installed) ==
    IF ~installed THEN Failed("ImportError")
    ELSE LET private_key == LoadPemPrivateKey(private_key_pem)
         IN  IF ~private_key.ok THEN Failed("ValueError")
             ELSE IF ~DateAddOk(today, ExpiryDays(years)) THEN Failed("OverflowError")
             ELSE IF ~IsEd25519(private_key.key) THEN Failed("TypeError")
             ELSE LET payload   == Payload(email, name, years, today)
                      signature == Sign(private_key.key, payload)
                  IN  Issued(Token(payload, signature), private_key.key, payload)

(***************************************************************************)
(* The command line and argparse.                                          *)
(***************************************************************************)
Opt(given, val) == [given |-> given, val |-> val]

Argv(pos, years, keyopt, help) ==
    [pos |-> pos, years |-> years, key |-> keyopt, help |-> help]

IsDigits(t) == t # <<>> /\ \A i \in 1..Len(t) : t[i] >= 48 /\ t[i] <= 57

RECURSIVE DigitsValue(_)
DigitsValue(t) ==
    IF t = <<>> THEN 0
    ELSE 10 * DigitsValue(SubSeq(t, 1, Len(t) - 1)) + (t[Len(t)] - 48)

\* int(text), as argparse applies it for type=int
ParseInt(t) ==
    LET signed == t # <<>> /\ t[1] \in {43, 45}
        digits == IF signed THEN Tail(t) ELSE t
    IN  IF ~IsDigits(digits) THEN [ok |-> FALSE, val |-> 0]
        ELSE [ok |-> TRUE,
              val |-> IF signed /\ t[1] = 45 THEN 0 - DigitsValue(digits)
                      ELSE DigitsValue(digits)]

\* the default of --years
DefaultYears == 1

Namespace(parsed, email, name, years, keyopt) ==
    [parsed |-> parsed, email |-> email, name |-> name, years |-> years, key |-> keyopt]

NoArgs == Namespace(FALSE, <<>>, <<>>, 0, Opt(FALSE, ""))

\* `if args.key:` -- None and the empty string are both false
KeyTruthy(keyopt) == keyopt.given /\ keyopt.val # ""

(***************************************************************************)
(* The inputs the model draws from.                                        *)
(***************************************************************************)
\* <<email, name>>: plain ASCII; quote, backslash, e-acute with name ~?> ;
\* "xy" with an astral code point and a lone low surrogate in the name
Licensees ==
    { << <<97, 64, 98>>, <<74, 32, 68>> >>,
      << <<34, 92, 233>>, <<126, 63, 62>> >>,
      << <<120, 121>>, <<128512, 56448>> >> }

\* --years absent, -1, 0, 8000
YearsOpts ==
    { Opt(FALSE, <<>>), Opt(TRUE, <<45, 49>>), Opt(TRUE, <<48>>),
      Opt(TRUE, <<56, 48, 48, 48>>) }

KeyOpts ==
    { Opt(FALSE, ""), Opt(TRUE, ""), Opt(TRUE, "~/ed1.pem"), Opt(TRUE, "ed2.pem"),
      Opt(TRUE, "rsa.pem"), Opt(TRUE, "junk.pem"), Opt(TRUE, "empty.pem"),
      Opt(TRUE, "keys"),
      Opt(TRUE, "locked.pem"), Opt(TRUE, "missing.pem") }

\* well-formed command lines; --years abc; the name missing; -h
Argvs ==
    { Argv(l, y, k, FALSE) : l \in Licensees, y \in YearsOpts, k \in KeyOpts }
    \cup { Argv(<< <<97, 64, 98>>, <<74, 32, 68>> >>, Opt(TRUE, <<97, 98, 99>>),
                Opt(FALSE, ""), FALSE),
           Argv(<< <<97, 64, 98>> >>, Opt(FALSE, <<>>), Opt(TRUE, "ed2.pem"), FALSE),
           Argv(<< <<97, 64, 98>>, <<74, 32, 68>> >>, Opt(FALSE, <<>>),
                Opt(FALSE, ""), TRUE) }

\* the calendar date when the model starts
Today0 == Ymd2Ord(2024, 2, 28)

(***************************************************************************)
(* The state machine: one process at a time, run after run.                *)
(***************************************************************************)
NoPem == [loaded |-> FALSE, bytes |-> <<>>]

NoSigning ==
    [started |-> FALSE, signed |-> FALSE, key |-> "", data |-> <<>>, today |-> 0]

NoPrev ==
    [set |-> FALSE, sub |-> <<>>, name |-> <<>>, years |-> 0, iss |-> 0,
     key |-> "", token |-> <<>>, source |-> ""]

Init ==
    /\ pc = "idle"
    /\ argv = Argv(<<>>, Opt(FALSE, <<>>), Opt(FALSE, ""), FALSE)
    /\ args = NoArgs
    /\ pem = NoPem
    /\ source = ""
    /\ key = <<>>
    /\ stdout = <<>>
    /\ stderr = <<>>
    /\ status = 0
    /\ clock = Today0
    /\ calls = <<>>
    /\ op = NoOp
    /\ signing = NoSigning
    /\ prev = NoPrev

\* the run that just ended, if it issued a token
Issuance ==
    IF pc = "exit" /\ status = 0 /\ signing.signed
    THEN [set |-> TRUE, sub |-> args.email, name |-> args.name, years |-> args.years,
          iss |-> signing.today, key |-> signing.key, token |-> key, source |-> source]
    ELSE prev

\* the script is started with a command line
StartRun ==
    /\ pc = "idle"
    /\ \E a \in Argvs : argv' = a
    /\ pc' = "parse"
    /\ UNCHANGED << args, pem, source, key, stdout, stderr, status, clock,
                    calls, op, signing, prev >>

\* the process is gone; recorded says whether the history keeps its issuance
Ended(recorded) ==
    /\ pc = "exit"
    /\ pc' = "idle"
    /\ argv' = Argv(<<>>, Opt(FALSE, <<>>), Opt(FALSE, ""), FALSE)
    /\ args' = NoArgs
    /\ pem' = NoPem
    /\ source' = ""
    /\ key' = <<>>
    /\ stdout' = <<>>
    /\ stderr' = <<>>
    /\ status' = 0
    /\ calls' = <<>>
    /\ op' = NoOp
    /\ signing' = NoSigning
    /\ prev' = IF recorded THEN Issuance ELSE prev
    /\ UNCHANGED clock

EndRun == Ended(FALSE)

EndRunRecorded == Ended(TRUE)

Usage == Line("usage: ", "usage: issue_license.py [-h] [--years YEARS] [--key PATH] email name", "", <<>>)

\* parser.error(message): usage and the message on stderr, exit status 2
ArgparseError(message, chars) ==
    << Usage, Line("issue_license.py: error: ", message, "", chars) >>

\* parser.parse_args()
ParseArgs ==
    /\ pc = "parse"
    /\ LET years == IF argv.years.given THEN ParseInt(argv.years.val)
                    ELSE [ok |-> TRUE, val |-> DefaultYears]
       IN  IF argv.help
           THEN /\ stdout' = << Usage >>
                /\ pc' = "exit"
                /\ UNCHANGED << args, stderr, status >>
           ELSE IF ~years.ok
           THEN /\ stderr' = ArgparseError("argument --years: invalid int value: ",
                                           argv.years.val)
                /\ status' = 2
                /\ pc' = "exit"
                /\ UNCHANGED << args, stdout >>
           ELSE IF Len(argv.pos) < 2
           THEN /\ stderr' = ArgparseError("the following arguments are required: name",
                                           <<>>)
                /\ status' = 2
                /\ pc' = "exit"
                /\ UNCHANGED << args, stdout >>
           ELSE /\ args' = Namespace(TRUE, argv.pos[1], argv.pos[2], years.val, argv.key)
                /\ pc' = "load"
                /\ UNCHANGED << stdout, stderr, status >>
    /\ UNCHANGED << argv, pem, source, key, clock, calls, op, signing, prev >>

\* main, "Load private key": what follows the key source's return or raise
Loaded(r, origin) ==
    IF r.ok
    THEN /\ pem' = [loaded |-> TRUE, bytes |-> r.val]
         /\ source' = origin
         /\ pc' = "issue"
         /\ UNCHANGED << stdout, stderr, status >>
    ELSE /\ pc' = "exit"
         /\ status' = 1
         /\ UNCHANGED << pem, source >>
         /\ IF r.exc = "RuntimeError"
            THEN /\ stdout' = stdout \o PrintError(r.msg).out
                 /\ stderr' = stderr \o PrintError(r.msg).err
            ELSE /\ stderr' = stderr \o Traceback(r.exc)
                 /\ UNCHANGED stdout

LoadKeyFromFile ==
    /\ pc = "load"
    /\ KeyTruthy(args.key)
    /\ calls' = Append(calls, "file")
    /\ Loaded(load_private_key_from_file(args.key.val), args.key.val)
    /\ UNCHANGED << argv, args, key, clock, op, signing, prev >>

LoadKeyFrom1Password ==
    /\ pc = "load"
    /\ ~KeyTruthy(args.key)
    /\ calls' = Append(calls, "1Password")
    /\ \E o \in OpOutcomes :
          /\ op' = o
          /\ Loaded(load_private_key_from_1password(o), "1Password")
    /\ UNCHANGED << argv, args, key, clock, signing, prev >>

\* main, "Generate key"
IssueKey ==
    /\ pc = "issue"
    /\ \E installed \in BOOLEAN :
          LET r == issue_key(args.email, args.name, args.years, pem.bytes,
                             clock, installed)
          IN  /\ signing' = [started |-> TRUE, signed |-> r.ok, key |-> r.key,
                             data |-> r.data, today |-> clock]
              /\ IF r.ok
                 THEN /\ key' = r.tok
                      /\ pc' = "report"
                      /\ UNCHANGED << stdout, stderr, status >>
                 ELSE /\ key' = <<>>
                      /\ pc' = "exit"
                      /\ status' = 1
                      /\ LET msg == IF r.exc = "ImportError"
                                    THEN << Msg("cryptography package not installed. Run: pip install cryptography", "") >>
                                    ELSE << Msg("failed to sign key: ", r.exc) >>
                         IN  /\ stdout' = stdout \o PrintError(msg).out
                             /\ stderr' = stderr \o PrintError(msg).err
    /\ UNCHANGED << argv, args, pem, source, clock, calls, op, prev >>

\* date.today() + timedelta(days=365 * args.years)
ReportExpiry(today, years) == today + 365 * years

\* main, after the token is issued: the expiry, then the four prints
Report ==
    /\ pc = "report"
    /\ pc' = "exit"
    /\ IF DateAddOk(clock, 365 * args.years)
       THEN /\ stdout' = Append(stdout, Line("", "", "", key))
            /\ stderr' = stderr \o
                 << Line("", "", "", <<>>),
                    Line("", "# Licensee:  ", "",
                         args.name \o <<32, 60>> \o args.email \o <<62>>),
                    Line("", "# Expires:   ", "",
                         IsoFormat(ReportExpiry(clock, args.years))),
                    Line("", "# Key from:  ", source, <<>>) >>
            /\ UNCHANGED status
       ELSE /\ stderr' = stderr \o Traceback("OverflowError")
            /\ status' = 1
            /\ UNCHANGED stdout
    /\ UNCHANGED << argv, args, pem, source, key, clock, calls, op, signing, prev >>

\* midnight passes
Tick ==
    /\ clock < Today0 + MaxTicks
    /\ clock' = clock + 1
    /\ UNCHANGED << pc, argv, args, pem, source, key, stdout, stderr, status,
                    calls, op, signing, prev >>

Next ==
    \/ StartRun
    \/ ParseArgs
    \/ LoadKeyFromFile
    \/ LoadKeyFrom1Password
    \/ IssueKey
    \/ Report
    \/ EndRun
    \/ Tick

Spec == Init /\ [][Next]_vars

\* the same runs, the history keeping the last issuance for comparison
NextPair ==
    \/ StartRun
    \/ ParseArgs
    \/ LoadKeyFromFile
    \/ LoadKeyFrom1Password
    \/ IssueKey
    \/ Report
    \/ EndRunRecorded
    \/ Tick

SpecPair == Init /\ [][NextPair]_vars

(***************************************************************************)
(* The relying party's side, used to state the properties of a token:      *)
(* splitting it, base64url-decoding without padding, UTF-8 decoding,       *)
(* json.loads, date.fromisoformat, and Ed25519 verification.               *)
(***************************************************************************)
B64Value(c) ==
    IF c >= 65 /\ c <= 90 THEN c - 65
    ELSE IF c >= 97 /\ c <= 122 THEN c - 97 + 26
    ELSE IF c >= 48 /\ c <= 57 THEN c - 48 + 52
    ELSE IF c = 45 THEN 62
    ELSE IF c = 95 THEN 63
    ELSE 64

\* the bytes of an unpadded base64url text, or ok = FALSE
B64UrlDecode(t) ==
    LET m     == Len(t)
        v(i)  == B64Value(t[i])
        n     == (3 * m) \div 4
        by(k) == LET q == (8 * (k - 1)) \div 6 + 1
                     r == (8 * (k - 1)) % 6
                 IN  IF r = 0 THEN v(q) * 4 + (v(q + 1) \div 16)
                     ELSE IF r = 2 THEN (v(q) % 16) * 16 + (v(q + 1) \div 4)
                     ELSE (v(q) % 4) * 64 + v(q + 1)
    IN  IF m % 4 = 1 \/ \E i \in 1..m : v(i) = 64
        THEN [ok |-> FALSE, bytes |-> <<>>]
        ELSE [ok |-> TRUE, bytes |-> [k \in 1..n |-> by(k)]]

IsCont(b) == b >= 128 /\ b < 192

\* how many bytes the character led by b takes, 0 when b leads none
Utf8Width(b) ==
    IF b < 128 THEN 1
    ELSE IF b >= 192 /\ b < 224 THEN 2
    ELSE IF b >= 224 /\ b < 240 THEN 3
    ELSE IF b >= 240 /\ b < 248 THEN 4
    ELSE 0

Utf8At(b, i) ==
    IF b[i] < 128 THEN b[i]
    ELSE IF b[i] < 224 THEN (b[i] - 192) * 64 + (b[i + 1] - 128)
    ELSE IF b[i] < 240
    THEN (b[i] - 224) * 4096 + (b[i + 1] - 128) * 64 + (b[i + 2] - 128)
    ELSE (b[i] - 240) * 262144 + (b[i + 1] - 128) * 4096
         + (b[i + 2] - 128) * 64 + (b[i + 3] - 128)

RECURSIVE Utf8Range(_, _, _)
\* the characters led by b[lo..hi], halving the range
Utf8Range(b, lo, hi) ==
    IF lo > hi THEN <<>>
    ELSE IF lo = hi THEN (IF IsCont(b[lo]) THEN <<>> ELSE << Utf8At(b, lo) >>)
    ELSE LET mid == (lo + hi) \div 2
         IN  Utf8Range(b, lo, mid) \o Utf8Range(b, mid + 1, hi)

\* bytes.decode(): ok, and the str
Utf8Decode(b) ==
    LET n == Len(b)
        leadOk(i) ==
            /\ Utf8Width(b[i]) > 0
            /\ i + Utf8Width(b[i]) - 1 <= n
            /\ \A j \in (i + 1)..(i + Utf8Width(b[i]) - 1) : IsCont(b[j])
        contOk(i) ==
            \E j \in 1..3 : i - j >= 1 /\ ~IsCont(b[i - j]) /\ Utf8Width(b[i - j]) > j
                            /\ \A m \in 1..(j - 1) : IsCont(b[i - m])
        ok == \A i \in 1..n : IF IsCont(b[i]) THEN contOk(i) ELSE leadOk(i)
    IN  IF ok THEN [ok |-> TRUE, str |-> Utf8Range(b, 1, n)]
        ELSE [ok |-> FALSE, str |-> <<>>]

HexValue(c) ==
    IF c >= 48 /\ c <= 57 THEN c - 48
    ELSE IF c >= 97 /\ c <= 102 THEN c - 87
    ELSE IF c >= 65 /\ c <= 70 THEN c - 55
    ELSE 16

\* the code unit of \uXXXX whose u is at s[i], or -1
Hex4(s, i) ==
    IF i + 4 <= Len(s) /\ s[i] = 117 /\ \A j \in 1..4 : HexValue(s[i + j]) < 16
    THEN HexValue(s[i + 1]) * 4096 + HexValue(s[i + 2]) * 256
         + HexValue(s[i + 3]) * 16 + HexValue(s[i + 4])
    ELSE 0 - 1

SimpleEscape(c) ==
    IF c = 34 \/ c = 92 \/ c = 47 THEN c
    ELSE IF c = 98 THEN 8
    ELSE IF c = 102 THEN 12
    ELSE IF c = 110 THEN 10
    ELSE IF c = 114 THEN 13
    ELSE IF c = 116 THEN 9
    ELSE 0 - 1

PFail == [ok |-> FALSE, val |-> <<>>, next |-> 0]

RECURSIVE ScanString(_, _, _)
\* the string literal whose content starts at s[i]
ScanString(s, i, acc) ==
    IF i > Len(s) THEN PFail
    ELSE IF s[i] = 34 THEN [ok |-> TRUE, val |-> acc, next |-> i + 1]
    ELSE IF s[i] < 32 THEN PFail
    ELSE IF s[i] # 92 THEN ScanString(s, i + 1, Append(acc, s[i]))
    ELSE IF i + 1 > Len(s) THEN PFail
    ELSE IF s[i + 1] # 117
    THEN (IF SimpleEscape(s[i + 1]) < 0 THEN PFail
          ELSE ScanString(s, i + 2, Append(acc, SimpleEscape(s[i + 1]))))
    ELSE LET u  == Hex4(s, i + 1)
             u2 == IF i + 7 <= Len(s) /\ s[i + 6] = 92 THEN Hex4(s, i + 7) ELSE 0 - 1
         IN  IF u < 0 THEN PFail
             ELSE IF u >= 55296 /\ u <= 56319 /\ u2 >= 56320 /\ u2 <= 57343
             THEN ScanString(s, i + 12,
                      Append(acc, 65536 + (u - 55296) * 1024 + (u2 - 56320)))
             ELSE ScanString(s, i + 6, Append(acc, u))

RECURSIVE SkipWs(_, _)
SkipWs(s, i) ==
    IF i <= Len(s) /\ s[i] \in {32, 9, 10, 13} THEN SkipWs(s, i + 1) ELSE i

\* a string literal at or after s[i]
ParseString(s, i) ==
    LET j == SkipWs(s, i)
    IN  IF j <= Len(s) /\ s[j] = 34 THEN ScanString(s, j + 1, <<>>) ELSE PFail

RECURSIVE ParseMembers(_, _, _)
\* the members of an object of strings from s[i] on: pairs in order
ParseMembers(s, i, acc) ==
    LET k  == ParseString(s, i)
        c  == SkipWs(s, k.next)
        v  == ParseString(s, c + 1)
        e  == SkipWs(s, v.next)
    IN  IF ~k.ok \/ c > Len(s) \/ s[c] # 58 THEN PFail
        ELSE IF ~v.ok \/ e > Len(s) THEN PFail
        ELSE IF s[e] = 44 THEN ParseMembers(s, e + 1, Append(acc, <<k.val, v.val>>))
        ELSE IF s[e] = 125 /\ SkipWs(s, e + 1) > Len(s)
        THEN [ok |-> TRUE, val |-> Append(acc, <<k.val, v.val>>), next |-> e + 1]
        ELSE PFail

\* json.loads of an object whose values are strings: ok, and the mapping
JsonLoads(s) ==
    LET o == SkipWs(s, 1)
        r == IF o <= Len(s) /\ s[o] = 123
             THEN (IF SkipWs(s, o + 1) <= Len(s) /\ s[SkipWs(s, o + 1)] = 125
                      /\ SkipWs(s, SkipWs(s, o + 1) + 1) > Len(s)
                   THEN [ok |-> TRUE, val |-> <<>>, next |-> 0]
                   ELSE ParseMembers(s, o + 1, <<>>))
             ELSE PFail
        keys == {r.val[i][1] : i \in 1..Len(r.val)}
        last(k) == CHOOSE i \in 1..Len(r.val) :
                      /\ r.val[i][1] = k
                      /\ \A j \in (i + 1)..Len(r.val) : r.val[j][1] # k
    IN  [ok |-> r.ok, map |-> [k \in keys |-> r.val[last(k)][2]]]

DaysInMonth(y, m) ==
    IF m = 2 THEN (IF IsLeap(y) THEN 29 ELSE 28)
    ELSE IF m \in {4, 6, 9, 11} THEN 30 ELSE 31

\* date.fromisoformat("YYYY-MM-DD").toordinal(), or 0
ParseIso(t) ==
    IF Len(t) = 10 /\ t[5] = 45 /\ t[8] = 45
       /\ IsDigits(SubSeq(t, 1, 4)) /\ IsDigits(SubSeq(t, 6, 7))
       /\ IsDigits(SubSeq(t, 9, 10))
    THEN LET y == DigitsValue(SubSeq(t, 1, 4))
             m == DigitsValue(SubSeq(t, 6, 7))
             d == DigitsValue(SubSeq(t, 9, 10))
         IN  IF y >= 1 /\ m >= 1 /\ m <= 12 /\ d >= 1 /\ d <= DaysInMonth(y, m)
             THEN Ymd2Ord(y, m, d) ELSE 0
    ELSE 0

\* Ed25519PublicKey.verify(signature, data) under the public key of k
Verify(k, signature, data) == signature = Sign(k, data)

\* a token taken apart: prefix off, the segments between the dots, the first
\* decoded to the payload and parsed, the second decoded to the signature
Decode(tok) ==
    LET hasPrefix == Len(tok) >= Len(Prefix) /\ SubSeq(tok, 1, Len(Prefix)) = Prefix
        body == SubSeq(tok, Len(Prefix) + 1, Len(tok))
        dots == {i \in 1..Len(body) : body[i] = 46}
        d    == CHOOSE i \in dots : TRUE
        p    == B64UrlDecode(SubSeq(body, 1, d - 1))
        sg   == B64UrlDecode(SubSeq(body, d + 1, Len(body)))
        text == Utf8Decode(p.bytes)
        js   == JsonLoads(text.str)
    IN  IF ~hasPrefix \/ Cardinality(dots) # 1 THEN [ok |-> FALSE]
        ELSE IF ~p.ok \/ ~sg.ok \/ ~text.ok \/ ~js.ok THEN [ok |-> FALSE]
        ELSE [ok |-> TRUE, payload |-> p.bytes, signature |-> sg.bytes, map |-> js.map]

(***************************************************************************)
(* What a run left behind.                                                 *)
(***************************************************************************)
IsTokenLine(l) ==
    Len(l.chars) >= Len(Prefix) /\ SubSeq(l.chars, 1, Len(Prefix)) = Prefix

TokenOnStdout == \E i \in 1..Len(stdout) : IsTokenLine(stdout[i])

\* the run is over and it printed a token
Emitted == pc = "exit" /\ stdout # <<>> /\ IsTokenLine(stdout[1])

EmittedToken == stdout[1].chars

\* issue_key returned a token, which main holds in key
HasIssued == signing.signed

\* key material loaded, claim signed, exit status 0
Succeeded == pem.loaded /\ signing.signed /\ status = 0

HasErrorLine == \E i \in 1..Len(stderr) : stderr[i].tag = "error: "

\* the date on the "# Expires:" line of standard error
ExpiresLines == {i \in 1..Len(stderr) : stderr[i].pre = "# Expires:   "}

(***************************************************************************)
(* C1: a token is on standard output if and only if the run succeeded      *)
(* (key loaded, claim signed, status 0); a failing run writes to standard  *)
(* error only and leaves standard output empty.                            *)
(***************************************************************************)
C1_StdoutIffSuccess ==
    /\ TokenOnStdout => pc = "exit" /\ Succeeded
    /\ pc = "exit" /\ Succeeded => Emitted /\ Len(stdout) = 1
    /\ pc = "exit" /\ status # 0 => stdout = <<>> /\ stderr # <<>>

\* a run that failed in the signing step
C1_Witness ==
    /\ pc = "exit" /\ status = 1 /\ signing.started /\ stdout = <<>>

(***************************************************************************)
(* C2: every run that ends in an error exits with status 1 and has an      *)
(* "error: <message>" line on standard error; a successful run exits 0.    *)
(***************************************************************************)
C2_ErrorsExitOneWithErrorLine ==
    pc = "exit" =>
        /\ status \in {0, 1}
        /\ ~Succeeded /\ ~argv.help => status = 1 /\ HasErrorLine
        /\ Succeeded => status = 0

(***************************************************************************)
(* C3: past argument parsing exactly one key source is invoked, once: the  *)
(* file source iff --key was supplied, whatever its value, the secret      *)
(* store iff it was not; signing starts only after the source returned.    *)
(***************************************************************************)
C3_SourceByKeySupplied ==
    /\ args.parsed /\ pc \in {"issue", "report", "exit"} =>
          /\ Len(calls) = 1
          /\ calls[1] = "file" <=> argv.key.given
          /\ calls[1] = "1Password" <=> ~argv.key.given
    /\ signing.started => pem.loaded /\ Len(calls) = 1

(***************************************************************************)
(* C4: for years >= 0 the issued claim's exp is its iss plus exactly       *)
(* 365 * years days, both from the one clock reading issue_key made, also  *)
(* when the date changes during the run; years = 0 gives exp = iss.        *)
(***************************************************************************)
C4_ExpIsIssPlus365Years ==
    HasIssued /\ args.years >= 0 =>
        LET d == Decode(key)
        IN  /\ d.ok
            /\ KeyIss \in DOMAIN d.map /\ KeyExp \in DOMAIN d.map
            /\ ParseIso(d.map[KeyIss]) = signing.today
            /\ ParseIso(d.map[KeyExp]) = ParseIso(d.map[KeyIss]) + 365 * args.years
            /\ args.years = 0 => d.map[KeyExp] = d.map[KeyIss]

\* a one-year token whose run saw the date change after the claim was signed
C4_Witness == Emitted /\ HasIssued /\ args.years = 1 /\ clock # signing.today

\* this run signed for the subject, name, years, date and key of an earlier one
SameInputsAsBefore ==
    /\ prev.set
    /\ prev.sub = args.email /\ prev.name = args.name /\ prev.years = args.years
    /\ prev.iss = signing.today /\ prev.key = signing.key

C6_PayloadRoundTrip ==
    HasIssued =>
        LET d == Decode(key)
        IN  /\ d.ok
            /\ DOMAIN d.map = {KeySub, KeyName, KeyTier, KeyIss, KeyExp}
            /\ d.map[KeySub] = args.email
            /\ d.map[KeyName] = args.name
            /\ d.map[KeyTier] = Commercial
            /\ d.map[KeyIss] = IsoFormat(signing.today)
            /\ d.map[KeyExp] = IsoFormat(signing.today + 365 * args.years)

\* a token for an email with a quote, a backslash and a non-ASCII letter
C6_Witness == Emitted /\ HasIssued /\ args.email = <<34, 92, 233>>

\* bytes with the one at i changed by delta
Altered(bytes, i, delta) == [bytes EXCEPT ![i] = (bytes[i] + delta) % 256]

\* the changes tried on each byte
Deltas == {1, 128, 255}

(***************************************************************************)
(* C7: the bytes signed are the payload bytes embedded in the token, so    *)
(* the signature verifies under the matching key, and it does not once a   *)
(* single byte of the payload or of the signature is altered.              *)
(***************************************************************************)
C7_SignedIsEmbedded ==
    HasIssued =>
        LET d == Decode(key)
        IN  /\ d.ok
            /\ d.payload = signing.data
            /\ Verify(signing.key, d.signature, d.payload)
            /\ \A i \in 1..Len(d.payload) : \A x \in Deltas :
                  ~Verify(signing.key, d.signature, Altered(d.payload, i, x))
            /\ \A i \in 1..Len(d.signature) : \A x \in Deltas :
                  ~Verify(signing.key, Altered(d.signature, i, x), d.payload)

\* a token whose payload needs base64 padding
C7_Witness == Emitted /\ HasIssued /\ Len(signing.data) % 3 = 2

\* the run printed text as its error, signed nothing and exited non-zero
ReportedAndGaveUp(text) ==
    /\ pc = "exit" /\ status # 0 /\ ~signing.started /\ ~pem.loaded
    /\ stdout = <<>>
    /\ stderr # <<>> /\ stderr[1].tag = "error: " /\ stderr[1].pre = text

(***************************************************************************)
(* C8: the secret store yields key bytes only when op was found, exited    *)
(* successfully and printed something; op missing, op failing and empty    *)
(* output each raise their own error (install hint, op's diagnostics,      *)
(* empty output), which the run reports, signing nothing, exiting non-zero.*)
(***************************************************************************)
C8_SecretStoreOutcomes ==
    op.kind # "none" =>
        /\ pem.loaded <=> op.kind = "ok" /\ StripWs(op.out) # <<>>
        /\ pem.loaded => pem.bytes = StripWs(op.out)
        /\ op.kind = "notfound" =>
              ReportedAndGaveUp("1Password CLI (op) not found. Install with: brew install 1password-cli")
        /\ op.kind = "failed" =>
              /\ ReportedAndGaveUp("op failed (are you signed in? run: op signin):")
              /\ Len(stderr) = 1 + Len(StripWs(op.err))
              /\ \A i \in 1..Len(StripWs(op.err)) : stderr[i + 1].arg = StripWs(op.err)[i]
        /\ op.kind = "ok" /\ StripWs(op.out) = <<>> =>
              ReportedAndGaveUp("op returned empty output")

\* op succeeded and printed only whitespace
C8_Witness == pc = "exit" /\ op.kind = "ok" /\ op.out = <<"ws", "ws">>

(***************************************************************************)
(* C9: in every run that emits a token years is non-negative, so no        *)
(* emitted token has an exp earlier than its iss.                          *)
(***************************************************************************)
C9_YearsNonNegative ==
    Emitted =>
        LET d == Decode(EmittedToken)
        IN  /\ args.years >= 0
            /\ d.ok /\ ParseIso(d.map[KeyExp]) >= ParseIso(d.map[KeyIss])

(***************************************************************************)
(* C10: on a successful run the date of the "# Expires:" line on standard  *)
(* error is the exp of the token on standard output, also when the date    *)
(* changes between signing and printing.                                   *)
(***************************************************************************)
C10_ExpiresLineIsExp ==
    Emitted =>
        LET d == Decode(EmittedToken)
        IN  /\ d.ok
            /\ Cardinality(ExpiresLines) = 1
            /\ \A i \in ExpiresLines : stderr[i].chars = d.map[KeyExp]

=============================================================================
